---------------------------- MODULE Spec2Model ----------------------------
(***************************************************************************)
(* A model of the algorithmic kernels of tstoolbox (src/tstoolbox/         *)
(* tstoolbox.py): the banded dynamic-time-warping distance _dtw and the    *)
(* time-indexed expression evaluator equation / _parse_equation; and of   *)
(* the FFT filter _transform (src/tstoolbox/functions/filter.py,           *)
(* src/tstoolbox/filters.py).                                              *)
(*                                                                         *)
(* Each kernel is a sequential procedure; it is modelled as a state        *)
(* machine whose actions are the statements and loops of the procedure,    *)
(* with its own initial condition drawing the call's arguments from        *)
(* bounded sets: SpecDtw for _dtw, SpecEq for equation, SpecPairs for the   *)
(* loop of dtw over the pairs of columns, SpecRead for the column names of *)
(* read, SpecFft for _transform and its two wrappers, SpecFilter for the   *)
(* filter command.                                                         *)
(***************************************************************************)
EXTENDS Integers, Sequences, FiniteSets, TLC

VARIABLES
    pc,         \* position of the running procedure
    exc,        \* the exception that ended the call, "none" while there is none
    ts_a,       \* _dtw: first sequence
    ts_b,       \* _dtw: second sequence
    window,     \* _dtw: band width
    cost,       \* _dtw: the cost matrix, indexed <<i, j>> from 0
    written,    \* _dtw: the cells of cost assigned so far
    i,          \* _dtw: row of the band loop
    result,     \* _dtw: <<the returned distance>>, <<>> before the return
    x,          \* equation: the input table, a sequence of rows
    equation,   \* equation: the expression
    tsearch,    \* equation: the expression has a bracket reference with t
    nsearch,    \* equation: the expression has a numbered placeholder
    testeval,   \* equation: the bracket offsets to test, 't' removed
    nequation,  \* equation: the rewritten expression
    y,          \* equation: the output table
    t,          \* equation: row of the evaluation loop
    assigned,   \* equation: the rows of y assigned by the loop so far
    tsd,        \* dtw: the input table, column name -> values
    columns,    \* dtw: tsd.columns, the column names in table order
    dwindow,    \* dtw: the window handed on to _dtw
    col_i,      \* dtw: position of the outer loop in columns
    col_j,      \* dtw: position of the inner loop in columns
    process,    \* dtw: the dictionary <<name, name>> -> distance
    calls,      \* dtw: the argument pairs of the calls of _dtw, in order
    filenames,  \* read: the files, each with its name and its column names
    rcolumns,   \* read: result.columns
    colnames,   \* read: the names with the leading file component removed
    entry,      \* filter: the function called
    vector,     \* _transform: the samples
    cutoff_period,  \* _transform: <<the period>>, <<>> for None
    window_len, \* _transform: <<the length>>, <<>> for None
    lopass,     \* _transform: "True", "False" or "None"
    freq,       \* _transform: the bins' frequencies, in units of 1/len(vector)
    factor,     \* _transform: the mask, in units of 1/fden
    fden,       \* _transform: the unit of factor, fresult and rvector
    fresult,    \* _transform: result, the spectrum, <<>> before rfft
    rvector,    \* _transform: the filtered samples, <<>> before irfft
    fmodule,    \* filter: the file of the command, "tstoolbox" or "functions"
    filter_type,    \* filter: the name of the filter
    fcutoff,    \* filter: cutoff_period, <<the period>> or <<>> for None
    fwindow,    \* filter: window_len
    ftsd,       \* filter: the table, a sequence of columns [v, den]
    fcol,       \* filter: position of the loop over tsd.columns
    filtered    \* filter: the columns stored back so far

dtwvars == <<ts_a, ts_b, window, cost, written, i, result>>
eqvars == <<x, equation, tsearch, nsearch, testeval, nequation, y, t, assigned>>
pairvars == <<tsd, columns, dwindow, col_i, col_j, process, calls>>
readvars == <<filenames, rcolumns, colnames>>
fftvars == <<entry, vector, cutoff_period, window_len, lopass, freq, factor,
             fden, fresult, rvector>>
cmdvars == <<fmodule, filter_type, fcutoff, fwindow, ftsd, fcol, filtered>>
vars == <<pc, exc, dtwvars, eqvars, pairvars, readvars, fftvars, cmdvars>>

\* what a step of one procedure leaves alone of the others
notdtw == <<eqvars, pairvars, readvars, fftvars, cmdvars>>
noteq == <<dtwvars, pairvars, readvars, fftvars, cmdvars>>
notpairs == <<dtwvars, eqvars, readvars, fftvars, cmdvars>>
notread == <<dtwvars, eqvars, pairvars, fftvars, cmdvars>>
notfft == <<dtwvars, eqvars, pairvars, readvars, cmdvars>>
notcmd == <<dtwvars, eqvars, pairvars, readvars, fftvars>>

PairsIdle ==
    /\ tsd = <<>>
    /\ columns = <<>>
    /\ dwindow = 0
    /\ col_i = 0
    /\ col_j = 0
    /\ process = <<>>
    /\ calls = <<>>

ReadIdle ==
    /\ filenames = <<>>
    /\ rcolumns = <<>>
    /\ colnames = <<>>

\* the variables of the filter command while another procedure runs
CmdIdle ==
    /\ fmodule = ""
    /\ filter_type = ""
    /\ fcutoff = <<>>
    /\ fwindow = 0
    /\ ftsd = <<>>
    /\ fcol = 0
    /\ filtered = {}

FftIdle ==
    /\ entry = ""
    /\ vector = <<>>
    /\ cutoff_period = <<>>
    /\ window_len = <<>>
    /\ lopass = "None"
    /\ freq = <<>>
    /\ factor = <<>>
    /\ fden = 1
    /\ fresult = <<>>
    /\ rvector = <<>>

-----------------------------------------------------------------------------
(* Bounds of the model.                                                    *)

DtwMaxLen == 3      \* longest sequence handed to _dtw
DtwMaxVal == 1      \* sequence elements are 0..DtwMaxVal
DtwMaxWin == 3      \* largest window handed to _dtw

(* sys.maxsize as the float the cost matrix is filled with.  The checker's *)
(* integers are 32 bits wide, so the sentinel is the largest of them; what *)
(* the model keeps of the float is that it is larger than every            *)
(* accumulated cost and absorbs an addend (FAdd).                          *)
maxsize == 2147483647

Max(p, q) == IF p >= q THEN p ELSE q
Min(p, q) == IF p <= q THEN p ELSE q

RECURSIVE SeqsOfLen(_, _)
SeqsOfLen(S, n) ==
    IF n = 0 THEN {<<>>}
    ELSE {Append(s, v) : s \in SeqsOfLen(S, n - 1), v \in S}

SeqsUpTo(S, n) == UNION {SeqsOfLen(S, k) : k \in 0..n}

DtwVals == 0..DtwMaxVal
DtwSeqs == SeqsUpTo(DtwVals, DtwMaxLen)
DefaultWindow == 10000      \* window=10000 of the signature
DtwWindows == ((-1)..DtwMaxWin) \cup {DefaultWindow}

-----------------------------------------------------------------------------
(* _dtw: the pure parts.  Sequences are 1-based here and 0-based in the    *)
(* source: element k of the source is s[k + 1].                            *)

\* the default pointwise distance, lambda x, y: abs(x-y)
d(p, q) == IF p >= q THEN p - q ELSE q - p

\* float addition of a cost and a pointwise distance: the sentinel absorbs
FAdd(p, q) == IF p >= maxsize THEN maxsize ELSE p + q

Cells(M, N) == (0..(M - 1)) \X (0..(N - 1))

\* cost = sys.maxsize * ones((M, N))
NewCostZeros(M, N) == [c \in Cells(M, N) |-> 0]
NewCost(M, N) == [c \in Cells(M, N) |-> maxsize]

\* for i in range(1, M): cost[i, 0] = cost[i-1, 0] + d(ts_a[i], ts_b[0])
RECURSIVE FirstColumn(_, _, _, _)
FirstColumn(c, a, b, k) ==
    IF k >= Len(a) THEN c
    ELSE FirstColumn([c EXCEPT ![<<k, 0>>] =
                          FAdd(c[<<k - 1, 0>>], d(a[k + 1], b[1]))],
                     a, b, k + 1)

\* for j in range(1, N): cost[0, j] = cost[0, j-1] + d(ts_a[0], ts_b[j])
RECURSIVE FirstRow(_, _, _, _)
FirstRow(c, a, b, k) ==
    IF k >= Len(b) THEN c
    ELSE FirstRow([c EXCEPT ![<<0, k>>] =
                       FAdd(c[<<0, k - 1>>], d(a[1], b[k + 1]))],
                  a, b, k + 1)

\* range(max(1, i - window), min(N, i + window)) of row r
BandLoDiagonal(r, w) == Max(1, r)
BandLo(r, w) == Max(1, r - w)
BandHiShort(N, r, w) == Min(N, r + w - 1)
BandHiWide(N, r, w) == Min(N, r + w + 1)
BandHi(N, r, w) == Min(N, r + w)
Band(N, r, w) == {k \in 0..(N - 1) : BandLo(r, w) <= k /\ k < BandHi(N, r, w)}

\* min(choices): choices = cost[i-1, j-1], cost[i, j-1], cost[i-1, j]
MinChoiceNoDiagonal(c, r, k) == Min(c[<<r, k - 1>>], c[<<r - 1, k>>])
MinChoice(c, r, k) ==
    Min(c[<<r - 1, k - 1>>], Min(c[<<r, k - 1>>], c[<<r - 1, k>>]))

\* the inner loop over j of row r, from column k on
RECURSIVE PopulateRow(_, _, _, _, _, _)
PopulateRow(c, a, b, w, r, k) ==
    IF k >= BandHi(Len(b), r, w) THEN c
    ELSE PopulateRow([c EXCEPT ![<<r, k>>] =
                          FAdd(MinChoice(c, r, k), d(a[r + 1], b[k + 1]))],
                     a, b, w, r, k + 1)

\* the outer loop over i, from row r on
RECURSIVE Populate(_, _, _, _, _)
Populate(c, a, b, w, r) ==
    IF r >= Len(a) THEN c
    ELSE Populate(PopulateRow(c, a, b, w, r, BandLo(r, w)), a, b, w, r + 1)

\* _dtw(a, b, window=w) of two non-empty sequences: cost[-1, -1]
Dtw(a, b, w) ==
    LET M  == Len(a)
        N  == Len(b)
        c0 == [NewCost(M, N) EXCEPT ![<<0, 0>>] = d(a[1], b[1])]
        c1 == FirstColumn(c0, a, b, 1)
        c2 == FirstRow(c1, a, b, 1)
        c3 == Populate(c2, a, b, w, 1)
    IN  c3[<<M - 1, N - 1>>]

-----------------------------------------------------------------------------
(* _dtw as a state machine.                                                *)

\* the evaluator's variables while _dtw runs
EqIdle ==
    /\ x = <<>>
    /\ equation = <<>>
    /\ tsearch = FALSE
    /\ nsearch = FALSE
    /\ testeval = {}
    /\ nequation = <<>>
    /\ y = <<>>
    /\ t = 0
    /\ assigned = {}

InitDtw ==
    /\ pc = "dtw_call"
    /\ exc = "none"
    /\ ts_a \in DtwSeqs
    /\ ts_b \in DtwSeqs
    /\ window \in DtwWindows
    /\ cost = <<>>
    /\ written = {}
    /\ i = 0
    /\ result = <<>>
    /\ EqIdle
    /\ PairsIdle
    /\ ReadIdle
    /\ FftIdle
    /\ CmdIdle

\* M, N = len(ts_a), len(ts_b); cost = sys.maxsize * pd.np.ones((M, N))
DtwCreate ==
    /\ pc = "dtw_call"
    /\ cost' = NewCost(Len(ts_a), Len(ts_b))
    /\ pc' = "dtw_corner"
    /\ UNCHANGED <<exc, ts_a, ts_b, window, written, i, result>>
    /\ UNCHANGED notdtw

\* cost[0, 0] = d(ts_a[0], ts_b[0]); indexing an empty array raises
DtwCorner ==
    /\ pc = "dtw_corner"
    /\ IF Len(ts_a) = 0 \/ Len(ts_b) = 0
       THEN /\ exc' = "IndexError"
            /\ pc' = "raised"
            /\ UNCHANGED <<cost, written>>
       ELSE /\ cost' = [cost EXCEPT ![<<0, 0>>] = d(ts_a[1], ts_b[1])]
            /\ written' = {<<0, 0>>}
            /\ pc' = "dtw_column"
            /\ exc' = exc
    /\ UNCHANGED <<ts_a, ts_b, window, i, result>>
    /\ UNCHANGED notdtw

DtwFirstColumn ==
    /\ pc = "dtw_column"
    /\ cost' = FirstColumn(cost, ts_a, ts_b, 1)
    /\ written' = written \cup {<<k, 0>> : k \in 1..(Len(ts_a) - 1)}
    /\ pc' = "dtw_row"
    /\ UNCHANGED <<exc, ts_a, ts_b, window, i, result>>
    /\ UNCHANGED notdtw

DtwFirstRow ==
    /\ pc = "dtw_row"
    /\ cost' = FirstRow(cost, ts_a, ts_b, 1)
    /\ written' = written \cup {<<0, k>> : k \in 1..(Len(ts_b) - 1)}
    /\ i' = 1
    /\ pc' = "dtw_band"
    /\ UNCHANGED <<exc, ts_a, ts_b, window, result>>
    /\ UNCHANGED notdtw

\* one pass of "for i in range(1, M)": the whole inner loop over j
DtwPopulateRow ==
    /\ pc = "dtw_band"
    /\ i < Len(ts_a)
    /\ cost' = PopulateRow(cost, ts_a, ts_b, window, i, BandLo(i, window))
    /\ written' = written \cup {<<i, k>> : k \in Band(Len(ts_b), i, window)}
    /\ i' = i + 1
    /\ UNCHANGED <<pc, exc, ts_a, ts_b, window, result>>
    /\ UNCHANGED notdtw

\* return cost[-1, -1]
DtwReturn ==
    /\ pc = "dtw_band"
    /\ i >= Len(ts_a)
    /\ result' = <<cost[<<Len(ts_a) - 1, Len(ts_b) - 1>>]>>
    /\ pc' = "done"
    /\ UNCHANGED <<exc, ts_a, ts_b, window, cost, written, i>>
    /\ UNCHANGED notdtw

NextDtw ==
    \/ DtwCreate
    \/ DtwCorner
    \/ DtwFirstColumn
    \/ DtwFirstRow
    \/ DtwPopulateRow
    \/ DtwReturn

SpecDtw == InitDtw /\ [][NextDtw]_vars

-----------------------------------------------------------------------------
(* Properties of _dtw.                                                     *)

DtwDone == pc = "done" /\ result # <<>>
NonEmpty == Len(ts_a) > 0 /\ Len(ts_b) > 0

\* C1: for non-empty A, B and window W >= 1, _dtw(A, B, W) returns the same
\* value as _dtw(B, A, W).
C1_Symmetric ==
    (DtwDone /\ window >= 1) => result[1] = Dtw(ts_b, ts_a, window)

\* C2: for non-empty A, B and windows 1 <= W1 <= W2, the distance returned
\* for W2 is at most the distance returned for W1.
C2_MonotoneInWindow ==
    (DtwDone /\ window >= 1) =>
        \A w2 \in window..DtwMaxWin : Dtw(ts_a, ts_b, w2) <= result[1]

\* a call whose distance is an accumulated cost and strictly drops when
\* the window is widened from 1 to 2
C2_Witness ==
    /\ DtwDone
    /\ window = 1
    /\ result[1] < maxsize
    /\ Dtw(ts_a, ts_b, 2) < result[1]

\* C3: for a non-empty A and window >= 1, _dtw(A, A, window) returns 0.
C3_Identity ==
    (DtwDone /\ window >= 1 /\ ts_a = ts_b) => result = <<0>>

\* a finished call on twice the same non-constant sequence, narrowest band
C3_Witness ==
    /\ DtwDone
    /\ window = 1
    /\ ts_a = ts_b
    /\ Len(ts_a) >= 3
    /\ ts_a[1] # ts_a[2]
    /\ result = <<0>>

\* C4: _dtw called with window < 1 on non-empty sequences fails with a
\* validation error and returns no distance.
C4_WindowRejected ==
    (window < 1 /\ NonEmpty) => (pc # "done" /\ result = <<>>)

\* C5: _dtw called with an empty ts_a or ts_b fails with a ValidationError,
\* not with an incidental indexing fault, and returns no distance.
C5_EmptyRejected ==
    (pc = "raised" /\ ~NonEmpty) =>
        (exc = "ValidationError" /\ result = <<>>)

-----------------------------------------------------------------------------
(* equation and _parse_equation: the inputs.                               *)

EqMaxRows == 4      \* most rows of an input table
EqMaxCols == 2      \* most columns of an input table
EqMaxOff  == 1      \* bracket references are x[t + off], |off| <= EqMaxOff

\* pd.np.nan, the missing value; every cell of an input table is positive
NaN == -1

(* The input tables.  A table is a sequence of rows, a row a sequence of   *)
(* cells; row r and column c of the source are tbl[r + 1][c + 1].  Two     *)
(* tables of every shape: a ramp (1, 2, 3, ... down the first column) and  *)
(* a table of distinct powers of 3, where a sum of one or two cells tells  *)
(* which cells were added.                                                 *)
RampTable(N, K) == [r \in 1..N |-> [c \in 1..K |-> r + 10 * (c - 1)]]
PowTable(N, K) == [r \in 1..N |-> [c \in 1..K |-> 3 ^ ((r - 1) * K + (c - 1))]]
Tables ==
    UNION {{RampTable(N, K), PowTable(N, K)} :
               N \in 1..EqMaxRows, K \in 1..EqMaxCols}

NRows(tbl) == Len(tbl)
NCols(tbl) == Len(tbl[1])

(* The expressions: a sum of one or two references, whole or wrapped in a  *)
(* call.  A reference is x, x[t+off], xK or xK[t+off]: col is K, 0 for the *)
(* unnumbered x; idx tells whether a bracket follows; off is the bracket's *)
(* offset from t.  bad tells what is wrong with the text: "syntax" for an  *)
(* unbalanced parenthesis, "name" for the whole sum wrapped in a call of a *)
(* function that does not exist, "ok" for neither.  The references of one  *)
(* expression are all numbered or all unnumbered.                          *)
TermCounts == {1, 2}
Term ==
    {tm \in [col : 0..(EqMaxCols + 1), idx : BOOLEAN,
             off : (-EqMaxOff)..EqMaxOff] : ~tm.idx => tm.off = 0}
PlainTerms == {tm \in Term : tm.col = 0}
NumberedTerms == {tm \in Term : tm.col >= 1}
TermSeqs ==
    UNION {SeqsOfLen(PlainTerms, n) \cup SeqsOfLen(NumberedTerms, n) :
               n \in TermCounts}
Exprs == [terms : TermSeqs, bad : {"ok", "syntax", "name"}]

TermIdx(e) == 1..Len(e.terms)

-----------------------------------------------------------------------------
(* _parse_equation.                                                        *)

\* tsearch = re.search(r'\[.*?t.*?\]', nequation)
TSearch(e) == \E k \in TermIdx(e) : e.terms[k].idx

\* nsearch = re.search(r'x[1-9][0-9]*', nequation)
NSearch(e) == \E k \in TermIdx(e) : e.terms[k].col >= 1

\* the re.findall of the branch, then testeval.remove('t')
TestEvalNumberedOnly(e) ==
    {e.terms[k].off :
         k \in {n \in TermIdx(e) : e.terms[n].idx /\ e.terms[n].col >= 1}}
    \ {0}
TestEval(e) ==
    LET found ==
            IF TSearch(e) /\ NSearch(e)
            THEN {e.terms[k].off :
                      k \in {n \in TermIdx(e) :
                                 e.terms[n].idx /\ e.terms[n].col >= 1}}
            ELSE IF TSearch(e)
            THEN {e.terms[k].off :
                      k \in {n \in TermIdx(e) :
                                 e.terms[n].idx /\ e.terms[n].col = 0}}
            ELSE {}
    IN  found \ {0}

(* The re.sub rewriting of one reference.  The result is a lookup: "cell"  *)
(* is x.ix[t+off, col], "row" is x.ix[t+off, :], "column" is x.ix[:, col], *)
(* "frame" is a bare x that no pattern matched; col is now counted from 0. *)
RewriteTermNoShift(tm, ts, ns) ==
    IF ts /\ ns /\ tm.col >= 1
    THEN [kind |-> "cell", off |-> tm.off, col |-> tm.col - 1]
    ELSE IF ts /\ ~ns /\ tm.col = 0
    THEN [kind |-> "row", off |-> tm.off, col |-> 0]
    ELSE IF ~ts /\ ns /\ tm.col >= 1
    THEN [kind |-> "column", off |-> 0, col |-> tm.col]
    ELSE [kind |-> "frame", off |-> 0, col |-> 0]
RewriteTerm(tm, ts, ns) ==
    IF ts /\ ns /\ tm.col >= 1
    THEN [kind |-> "cell", off |-> tm.off, col |-> tm.col - 1]
    ELSE IF ts /\ ~ns /\ tm.col = 0
    THEN [kind |-> "row", off |-> tm.off, col |-> 0]
    ELSE IF ~ts /\ ns /\ tm.col >= 1
    THEN [kind |-> "column", off |-> 0, col |-> tm.col - 1]
    ELSE [kind |-> "frame", off |-> 0, col |-> 0]

Rewrite(e) ==
    [terms |-> [k \in TermIdx(e) |->
                    RewriteTerm(e.terms[k], TSearch(e), NSearch(e))],
     bad |-> e.bad]

-----------------------------------------------------------------------------
(* eval(nequation): the pure parts.  An evaluation yields [err, v]: err is *)
(* TRUE when a lookup raised IndexError; v is a row of values.             *)

Raised == [err |-> TRUE, v |-> <<>>]
Value(v) == [err |-> FALSE, v |-> v]

\* eval(tst) < 0 for some tst in testeval
TestFailsNever(te, r) == FALSE
TestFails(te, r) == \E off \in te : r + off < 0

\* the row t+off a bracket denotes
RowIndex(r, off) == r + off

\* positional row lookup: past the end raises, a negative position counts
\* from the end
RowOk(tbl, r) == r < NRows(tbl) /\ r >= -NRows(tbl)
RowAt(tbl, r) == IF r < 0 THEN tbl[r + NRows(tbl) + 1] ELSE tbl[r + 1]

NaNRow(n) == [c \in 1..n |-> NaN]
AddRows(p, q) == [c \in 1..Len(p) |-> p[c] + q[c]]

\* one reference of the loop branches at row r
LookupAtT(tbl, lk, r) ==
    IF ~RowOk(tbl, r) THEN Raised
    ELSE IF lk.kind = "row" THEN Value(RowAt(tbl, r))
    ELSE IF lk.col >= NCols(tbl) THEN Raised
    ELSE Value(<<RowAt(tbl, r)[lk.col + 1]>>)
Lookup(tbl, lk, r) ==
    LET rr == RowIndex(r, lk.off)
    IN  IF ~RowOk(tbl, rr) THEN Raised
        ELSE IF lk.kind = "row" THEN Value(RowAt(tbl, rr))
        ELSE IF lk.col >= NCols(tbl) THEN Raised
        ELSE Value(<<RowAt(tbl, rr)[lk.col + 1]>>)

\* the sum of the references from the k-th on, left to right
RECURSIVE EvalTerms(_, _, _, _)
EvalTerms(tbl, terms, r, k) ==
    LET first == Lookup(tbl, terms[k], r)
    IN  IF first.err \/ k = Len(terms) THEN first
        ELSE LET rest == EvalTerms(tbl, terms, r, k + 1)
             IN  IF rest.err THEN Raised
                 ELSE Value(AddRows(first.v, rest.v))

(* One pass of the loop body at row r: the try block and its handler.      *)
(* "raise" is an exception the handler does not catch.                     *)
RowOutcomeFromOutput(te, neq, tbl, r, width) ==
    LET src == IF y # <<>> /\ Len(y) = NRows(tbl) /\ Len(y[1]) = NCols(tbl)
               THEN y ELSE tbl
    IN  IF TestFails(te, r) THEN [kind |-> "assign", v |-> NaNRow(width)]
        ELSE IF neq.bad = "syntax" THEN [kind |-> "SyntaxError", v |-> <<>>]
        ELSE IF neq.bad = "name" THEN [kind |-> "NameError", v |-> <<>>]
        ELSE LET got == EvalTerms(src, neq.terms, r, 1)
             IN  IF got.err THEN [kind |-> "assign", v |-> NaNRow(width)]
                 ELSE [kind |-> "assign", v |-> got.v]
RowOutcome(te, neq, tbl, r, width) ==
    IF TestFails(te, r) THEN [kind |-> "assign", v |-> NaNRow(width)]
    ELSE IF neq.bad = "syntax" THEN [kind |-> "SyntaxError", v |-> <<>>]
    ELSE IF neq.bad = "name" THEN [kind |-> "NameError", v |-> <<>>]
    ELSE LET got == EvalTerms(tbl, neq.terms, r, 1)
         IN  IF got.err THEN [kind |-> "assign", v |-> NaNRow(width)]
             ELSE [kind |-> "assign", v |-> got.v]

\* x.ix[:, 0].copy() as a one-column table
FirstColumnOf(tbl) == [r \in 1..NRows(tbl) |-> <<tbl[r][1]>>]

\* the column-indexed branch: eval(nequation) over whole columns
EvalVectorOverRows(neq, tbl) ==
    IF neq.bad = "syntax" THEN [kind |-> "SyntaxError", v |-> <<>>]
    ELSE IF neq.bad = "name" THEN [kind |-> "NameError", v |-> <<>>]
    ELSE IF \E k \in 1..Len(neq.terms) : neq.terms[k].col >= NCols(tbl)
    THEN [kind |-> "IndexError", v |-> <<>>]
    ELSE [kind |-> "assign",
          v |-> [c \in 1..NCols(tbl) |-> <<tbl[1][c]>>]]
EvalVector(neq, tbl) ==
    IF neq.bad = "syntax" THEN [kind |-> "SyntaxError", v |-> <<>>]
    ELSE IF neq.bad = "name" THEN [kind |-> "NameError", v |-> <<>>]
    ELSE IF \E k \in 1..Len(neq.terms) : neq.terms[k].col >= NCols(tbl)
    THEN [kind |-> "IndexError", v |-> <<>>]
    ELSE [kind |-> "assign",
          v |-> [r \in 1..NRows(tbl) |->
                    IF Len(neq.terms) = 1
                    THEN <<tbl[r][neq.terms[1].col + 1]>>
                    ELSE <<tbl[r][neq.terms[1].col + 1]
                           + tbl[r][neq.terms[2].col + 1]>>]]

\* the fallback branch: eval(equation) on the whole table
EvalPlainFirstColumn(e, tbl) ==
    IF e.bad = "syntax" THEN [kind |-> "SyntaxError", v |-> <<>>]
    ELSE IF e.bad = "name" THEN [kind |-> "NameError", v |-> <<>>]
    ELSE [kind |-> "assign", v |-> FirstColumnOf(tbl)]
EvalPlain(e, tbl) ==
    IF e.bad = "syntax" THEN [kind |-> "SyntaxError", v |-> <<>>]
    ELSE IF e.bad = "name" THEN [kind |-> "NameError", v |-> <<>>]
    ELSE [kind |-> "assign",
          v |-> [r \in 1..NRows(tbl) |->
                    IF Len(e.terms) = 1 THEN tbl[r]
                    ELSE AddRows(tbl[r], tbl[r])]]

-----------------------------------------------------------------------------
(* equation as a state machine.                                            *)

\* _dtw's variables while equation runs
DtwIdle ==
    /\ ts_a = <<>>
    /\ ts_b = <<>>
    /\ window = 0
    /\ cost = <<>>
    /\ written = {}
    /\ i = 0
    /\ result = <<>>

InitEq ==
    /\ pc = "eq_call"
    /\ exc = "none"
    /\ x \in Tables
    /\ equation \in Exprs
    /\ tsearch = FALSE
    /\ nsearch = FALSE
    /\ testeval = {}
    /\ nequation = <<>>
    /\ y = <<>>
    /\ t = 0
    /\ assigned = {}
    /\ DtwIdle
    /\ PairsIdle
    /\ ReadIdle
    /\ FftIdle
    /\ CmdIdle

\* tsearch, nsearch, testeval, nequation = _parse_equation(equation)
EqParse ==
    /\ pc = "eq_call"
    /\ tsearch' = TSearch(equation)
    /\ nsearch' = NSearch(equation)
    /\ testeval' = TestEval(equation)
    /\ nequation' = Rewrite(equation)
    /\ pc' = "eq_branch"
    /\ UNCHANGED <<exc, x, equation, y, t, assigned>>
    /\ UNCHANGED noteq

\* if tsearch and nsearch: y = the first column, one column named '_'
EqStartCells ==
    /\ pc = "eq_branch"
    /\ tsearch /\ nsearch
    /\ y' = FirstColumnOf(x)
    /\ t' = 0
    /\ pc' = "eq_loop"
    /\ UNCHANGED <<exc, x, equation, tsearch, nsearch, testeval, nequation,
                   assigned>>
    /\ UNCHANGED noteq

\* elif tsearch: y = x.copy()
EqStartRows ==
    /\ pc = "eq_branch"
    /\ tsearch /\ ~nsearch
    /\ y' = x
    /\ t' = 0
    /\ pc' = "eq_loop"
    /\ UNCHANGED <<exc, x, equation, tsearch, nsearch, testeval, nequation,
                   assigned>>
    /\ UNCHANGED noteq

\* one pass of "for t in range(len(x))" of either loop
EqRowStep ==
    /\ pc = "eq_loop"
    /\ t < NRows(x)
    /\ LET out == RowOutcome(testeval, nequation, x, t, Len(y[1]))
       IN  IF out.kind = "assign"
           THEN /\ y' = [y EXCEPT ![t + 1] = out.v]
                /\ assigned' = assigned \cup {t}
                /\ t' = t + 1
                /\ UNCHANGED <<pc, exc>>
           ELSE /\ exc' = out.kind
                /\ pc' = "raised"
                /\ UNCHANGED <<y, assigned, t>>
    /\ UNCHANGED <<x, equation, tsearch, nsearch, testeval, nequation>>
    /\ UNCHANGED noteq

\* the loop is exhausted
EqLoopEnd ==
    /\ pc = "eq_loop"
    /\ t >= NRows(x)
    /\ pc' = "eq_return"
    /\ UNCHANGED <<exc, eqvars>>
    /\ UNCHANGED noteq

\* elif nsearch: y = the first column; y.ix[:, 0] = eval(nequation)
EqVector ==
    /\ pc = "eq_branch"
    /\ ~tsearch /\ nsearch
    /\ LET out == EvalVector(nequation, x)
       IN  IF out.kind = "assign"
           THEN /\ y' = out.v
                /\ pc' = "eq_return"
                /\ exc' = exc
           ELSE /\ exc' = out.kind
                /\ pc' = "raised"
                /\ y' = FirstColumnOf(x)
    /\ UNCHANGED <<x, equation, tsearch, nsearch, testeval, nequation, t,
                   assigned>>
    /\ UNCHANGED noteq

\* else: y = eval(equation)
EqPlain ==
    /\ pc = "eq_branch"
    /\ ~tsearch /\ ~nsearch
    /\ LET out == EvalPlain(equation, x)
       IN  IF out.kind = "assign"
           THEN /\ y' = out.v
                /\ pc' = "eq_return"
                /\ exc' = exc
           ELSE /\ exc' = out.kind
                /\ pc' = "raised"
                /\ y' = y
    /\ UNCHANGED <<x, equation, tsearch, nsearch, testeval, nequation, t,
                   assigned>>
    /\ UNCHANGED noteq

\* return tsutils.print_input(print_input, x, y, ...): y is the result
EqReturn ==
    /\ pc = "eq_return"
    /\ pc' = "done"
    /\ UNCHANGED <<exc, eqvars>>
    /\ UNCHANGED noteq

NextEq ==
    \/ EqParse
    \/ EqStartCells
    \/ EqStartRows
    \/ EqRowStep
    \/ EqLoopEnd
    \/ EqVector
    \/ EqPlain
    \/ EqReturn

SpecEq == InitEq /\ [][NextEq]_vars

-----------------------------------------------------------------------------
(* dtw: the loop over the pairs of columns (tstoolbox.py, dtw).            *)

PairMaxCols == 3    \* most columns of the table handed to dtw

\* the column names a table can carry, and the values of a column
PairNames == {<<"a", "b", "c", "d", "e", "f">>[n] : n \in 1..PairMaxCols}
PairData == {<<0, 0>>, <<0, 1>>}

\* a table's columns: names are unique within a table
PairColumns ==
    {cs \in SeqsUpTo(PairNames, PairMaxCols) :
        \A m, n \in 1..Len(cs) : m # n => cs[m] # cs[n]}
ColumnSet(cs) == {cs[n] : n \in 1..Len(cs)}

\* if (i, j) not in process and (j, i) not in process and i != j
ShouldProcessNoMirror(proc, a, b) ==
    <<a, b>> \notin DOMAIN proc /\ a # b
ShouldProcess(proc, a, b) ==
    /\ <<a, b>> \notin DOMAIN proc
    /\ <<b, a>> \notin DOMAIN proc
    /\ a # b

\* process[(i, j)] = value
SetItem(proc, key, value) ==
    [k \in DOMAIN proc \cup {key} |-> IF k = key THEN value ELSE proc[k]]

InitPairs ==
    /\ pc = "pairs_call"
    /\ exc = "none"
    /\ columns \in PairColumns
    /\ tsd \in [ColumnSet(columns) -> PairData]
    /\ dwindow \in 1..DtwMaxWin
    /\ col_i = 0
    /\ col_j = 0
    /\ process = <<>>
    /\ calls = <<>>
    /\ DtwIdle
    /\ EqIdle
    /\ ReadIdle
    /\ FftIdle
    /\ CmdIdle

\* process = {}; the loops start at the first column
PairsStart ==
    /\ pc = "pairs_call"
    /\ process' = <<>>
    /\ col_i' = 1
    /\ col_j' = 1
    /\ pc' = "pairs_loop"
    /\ UNCHANGED <<exc, tsd, columns, dwindow, calls>>
    /\ UNCHANGED notpairs

\* one pass of the inner loop body, and the step to the next (i, j)
PairsStep ==
    /\ pc = "pairs_loop"
    /\ col_i <= Len(columns)
    /\ LET a == columns[col_i]
           b == columns[col_j]
       IN  IF ShouldProcess(process, a, b)
           THEN /\ process' = SetItem(process, <<a, b>>,
                                      Dtw(tsd[a], tsd[b], dwindow))
                /\ calls' = Append(calls, <<a, b>>)
           ELSE UNCHANGED <<process, calls>>
    /\ IF col_j < Len(columns)
       THEN col_j' = col_j + 1 /\ col_i' = col_i
       ELSE col_j' = 1 /\ col_i' = col_i + 1
    /\ UNCHANGED <<pc, exc, tsd, columns, dwindow>>
    /\ UNCHANGED notpairs

\* the loops are over: ntsd = pd.DataFrame(process.values(), process.keys())
PairsReturn ==
    /\ pc = "pairs_loop"
    /\ col_i > Len(columns)
    /\ pc' = "done"
    /\ UNCHANGED <<exc, pairvars>>
    /\ UNCHANGED notpairs

NextPairs ==
    \/ PairsStart
    \/ PairsStep
    \/ PairsReturn

SpecPairs == InitPairs /\ [][NextPairs]_vars

-----------------------------------------------------------------------------
(* read: the names of the columns of the joined table (tstoolbox.py,       *)
(* read).  A name is a sequence of characters.                             *)

ReadMaxFiles == 3   \* most files named in filenames
ReadMaxCols == 2    \* most columns of one file

\* the file names (directory and extension dropped) and the column names
ReadPrefixes == {<<"f">>, <<"g">>}
ReadNames == {<<"a">>, <<"a", "1">>}

\* a file: its name and its columns, distinct within the file
ReadFiles ==
    {f \in [prefix : ReadPrefixes, cols : SeqsUpTo(ReadNames, ReadMaxCols)] :
        /\ f.cols # <<>>
        /\ \A m, n \in 1..Len(f.cols) : m # n => f.cols[m] # f.cols[n]}

\* the reader's extended column name: file.column, as tests/test_read.py
\* shows it ('tests/data_simple.csv' and 'Value' give 'data_simple.Value')
Extended(f) == [n \in 1..Len(f.cols) |-> f.prefix \o <<".">> \o f.cols[n]]

\* pd.concat(..., axis=1): the columns of the files, in the order given
RECURSIVE Concat(_)
Concat(fs) ==
    IF fs = <<>> THEN <<>> ELSE Extended(Head(fs)) \o Concat(Tail(fs))

\* '.'.join(i.split('.')[1:])
StripFile(name) ==
    IF \E n \in 1..Len(name) : name[n] = "."
    THEN LET dot == CHOOSE n \in 1..Len(name) :
                        /\ name[n] = "."
                        /\ \A m \in 1..(n - 1) : name[m] # "."
         IN  SubSeq(name, dot + 1, Len(name))
    ELSE <<>>

\* str(index)
Digit(n) == <<"0", "1", "2", "3", "4", "5", "6", "7", "8", "9">>[n + 1]
RECURSIVE Str(_)
Str(n) == IF n < 10 THEN <<Digit(n)>> ELSE Str(n \div 10) \o <<Digit(n % 10)>>

\* list.count(v), set(list)
Count(l, v) == Cardinality({n \in 1..Len(l) : l[n] = v})
SetOf(l) == {l[n] : n \in 1..Len(l)}

\* [i if result.columns.tolist().count(i) == 1 else i + str(index) ...]
Renamed(cols) ==
    [n \in 1..Len(cols) |->
        IF Count(cols, cols[n]) = 1 THEN cols[n] ELSE cols[n] \o Str(n - 1)]

InitRead ==
    /\ pc = "read_call"
    /\ exc = "none"
    /\ filenames \in SeqsUpTo(ReadFiles, ReadMaxFiles)
    /\ filenames # <<>>
    /\ rcolumns = <<>>
    /\ colnames = <<>>
    /\ DtwIdle
    /\ EqIdle
    /\ PairsIdle
    /\ FftIdle
    /\ CmdIdle

\* result = pd.concat([... for i in filenames], join=how, axis=1)
ReadConcat ==
    /\ pc = "read_call"
    /\ rcolumns' = Concat(filenames)
    /\ pc' = "read_strip"
    /\ UNCHANGED <<exc, filenames, colnames>>
    /\ UNCHANGED notread

\* colnames = ['.'.join(i.split('.')[1:]) for i in result.columns]
ReadStrip ==
    /\ pc = "read_strip"
    /\ colnames' = [n \in 1..Len(rcolumns) |-> StripFile(rcolumns[n])]
    /\ pc' = "read_rename"
    /\ UNCHANGED <<exc, filenames, rcolumns>>
    /\ UNCHANGED notread

\* if len(colnames) == len(set(colnames)): ... else: ...
ReadRename ==
    /\ pc = "read_rename"
    /\ IF Len(colnames) = Cardinality(SetOf(colnames))
       THEN rcolumns' = colnames
       ELSE rcolumns' = Renamed(rcolumns)
    /\ pc' = "done"
    /\ UNCHANGED <<exc, filenames, colnames>>
    /\ UNCHANGED notread

NextRead ==
    \/ ReadConcat
    \/ ReadStrip
    \/ ReadRename

SpecRead == InitRead /\ [][NextRead]_vars

-----------------------------------------------------------------------------
(* The FFT filter: _transform (functions/filter.py) and the wrappers       *)
(* fft_lowpass and fft_highpass (filters.py).                              *)
(*                                                                         *)
(* Numbers are kept exact.  A frequency is a numerator over len(vector).   *)
(* The mask is a sequence of numerators over fden: 1 until the smoothing,  *)
(* window_len after it, so that the kernel [1.0/window_len]*window_len is  *)
(* a sequence of ones.  The samples are a level c plus an alternating      *)
(* component a*(-1)^t (for even lengths): such a vector's spectrum is      *)
(* n*c at bin 0, n*a at the Nyquist bin and 0 at every other bin, so rfft  *)
(* and irfft are exact sums; a constant vector is the case a = 0.          *)

FftMaxLen == 5      \* longest vector
FftMaxVal == 2      \* the level c is 0..FftMaxVal
FftMaxCut == 5      \* largest cutoff_period
FftMaxWin == 3      \* largest window_len

Even(n) == n % 2 = 0
Sign(q) == IF Even(q) THEN 1 ELSE -1
Level(n, c, a) == [q \in 1..n |-> c + a * Sign(q - 1)]
FftVectors ==
    {Level(n, c, 0) : n \in 1..FftMaxLen, c \in 0..FftMaxVal}
    \cup {Level(n, c, 1) : n \in {m \in 1..FftMaxLen : Even(m)},
                           c \in 0..FftMaxVal}
Unset == <<>>
Periods == {Unset} \cup {<<c>> : c \in 1..FftMaxCut}
Windows == {Unset} \cup {<<w>> : w \in 1..FftMaxWin}

RECURSIVE SumTo(_, _)
SumTo(f, n) == IF n = 0 THEN 0 ELSE f[n] + SumTo(f, n - 1)
Repeat(v, n) == [k \in 1..n |-> v]

\* F.rfft(vector, len(vector)): len(vector)//2 + 1 bins
RfftLen(n) == n \div 2 + 1
Rfft(v) ==
    LET n == Len(v)
    IN  [k \in 1..RfftLen(n) |->
            IF k = 1 THEN SumTo(v, n)
            ELSE IF Even(n) /\ k = n \div 2 + 1
                 THEN SumTo([q \in 1..n |-> v[q] * Sign(q - 1)], n)
                 ELSE 0]

\* F.irfft(result, n)
Irfft(Y, n) ==
    [q \in 1..n |->
        (Y[1] + (IF Even(n) THEN Y[n \div 2 + 1] * Sign(q - 1) ELSE 0)) \div n]

\* F.fftfreq(n): 0, 1, ..., (n-1)//2, -(n//2), ..., -1, each over n
FftFreq(n) ==
    [k \in 1..n |-> IF k - 1 <= (n - 1) \div 2 THEN k - 1 ELSE k - 1 - n]

\* factor[freq > 1.0/float(cutoff_period)] = 0.0 on np.ones_like(freq), and
\* the same with < for the high pass; fr/n > 1/cut is fr*cut > n
Zeroed(fr, n, cut, lo) ==
    [k \in 1..Len(fr) |->
        IF lo THEN (IF fr[k] * cut > n THEN 0 ELSE 1)
        ELSE (IF fr[k] * cut < n THEN 0 ELSE 1)]

\* np.pad(factor, width, mode='constant', constant_values=(left, right))
Pad(f, width, left, right) == Repeat(left, width) \o f \o Repeat(right, width)

\* np.convolve(a, v, mode=1): the full convolution, of which mode 1
\* ('same') keeps max(len) entries from entry (min(len) - 1)//2 on
ConvolveFull(a, v) ==
    [m \in 1..(Len(a) + Len(v) - 1) |->
        SumTo([j \in 1..Len(v) |->
                  IF m - j + 1 \in 1..Len(a) THEN a[m - j + 1] * v[j] ELSE 0],
              Len(v))]
ConvolveSame(a, v) ==
    LET left == (Min(Len(a), Len(v)) - 1) \div 2
    IN  SubSeq(ConvolveFull(a, v), left + 1, left + Max(Len(a), Len(v)))

\* factor[width:-width]
TrimNarrow(f, width) == SubSeq(f, width, Len(f) - width)
Trim(f, width) == SubSeq(f, width + 1, Len(f) - width)

\* the mask as _transform builds it, numerators over window_len
PadWidth(w) == w + 1
Padded(n, cut, w, lo) ==
    Pad(Zeroed(SubSeq(FftFreq(n), 1, RfftLen(n)), n, cut, lo), PadWidth(w),
        IF lo THEN 1 ELSE 0, IF lo THEN 0 ELSE 1)
Factor(n, cut, w, lo) ==
    Trim(ConvolveSame(Padded(n, cut, w, lo), Repeat(1, w)), PadWidth(w))

\* result * factor, with numpy's broadcasting of a one-element array
CanMultiply(a, b) == Len(a) = Len(b) \/ Len(a) = 1 \/ Len(b) = 1
Multiply(a, b) ==
    IF Len(a) = Len(b) THEN [k \in 1..Len(a) |-> a[k] * b[k]]
    ELSE IF Len(a) = 1 THEN [k \in 1..Len(b) |-> a[1] * b[k]]
    ELSE [k \in 1..Len(a) |-> a[k] * b[1]]

\* _transform past its check: the filtered samples, numerators over w
Transform(v, cut, w, lo) ==
    Irfft(Multiply(Rfft(v), Factor(Len(v), cut, w, lo)), Len(v))

Entries == {"_transform", "fft_lowpass", "fft_highpass"}

\* a call of _transform with any arguments, of fft_lowpass(vector,
\* cutoff_period=None, window_len=None), or of fft_highpass(vector,
\* ramp_start_freq, ramp_end_freq), which binds neither name
InitFft ==
    /\ entry \in Entries
    /\ pc = (IF entry = "_transform" THEN "fft_check" ELSE "fft_call")
    /\ exc = "none"
    /\ vector \in FftVectors
    /\ cutoff_period \in (IF entry = "fft_highpass" THEN {Unset} ELSE Periods)
    /\ window_len \in (IF entry = "fft_highpass" THEN {Unset} ELSE Windows)
    /\ lopass \in (IF entry = "_transform" THEN {"True", "False", "None"}
                   ELSE {"None"})
    /\ freq = <<>>
    /\ factor = <<>>
    /\ fden = 1
    /\ fresult = <<>>
    /\ rvector = <<>>
    /\ CmdIdle
    /\ DtwIdle
    /\ EqIdle
    /\ PairsIdle
    /\ ReadIdle

\* fft_lowpass: return _transform(vector, cutoff_period=cutoff_period,
\*                                window_len=window_len, lopass=True)
FftLowpass ==
    /\ pc = "fft_call"
    /\ entry = "fft_lowpass"
    /\ lopass' = "True"
    /\ pc' = "fft_check"
    /\ UNCHANGED <<exc, entry, vector, cutoff_period, window_len, freq, factor,
                   fden, fresult, rvector>>
    /\ UNCHANGED notfft

\* fft_highpass: the arguments of its call of _transform are the names
\* cutoff_period and window_len, which the function does not define
FftHighpass ==
    /\ pc = "fft_call"
    /\ entry = "fft_highpass"
    /\ pc' = "raised"
    /\ exc' = "NameError"
    /\ UNCHANGED fftvars
    /\ UNCHANGED notfft

\* if cutoff_period is None: raise ValueError
\* if window_len is None: raise ValueError
FftCheck ==
    /\ pc = "fft_check"
    /\ IF cutoff_period = Unset \/ window_len = Unset
       THEN pc' = "raised" /\ exc' = "ValueError"
       ELSE pc' = "fft_rfft" /\ exc' = exc
    /\ UNCHANGED fftvars
    /\ UNCHANGED notfft

\* result = F.rfft(vector, len(vector))
\* freq = F.fftfreq(len(vector))[:len(vector)//2 + 1]
\* factor = np.ones_like(freq)
FftRfft ==
    /\ pc = "fft_rfft"
    /\ fresult' = Rfft(vector)
    /\ freq' = SubSeq(FftFreq(Len(vector)), 1, Len(vector) \div 2 + 1)
    /\ factor' = Repeat(1, Len(freq'))
    /\ pc' = "fft_mask"
    /\ UNCHANGED <<exc, entry, vector, cutoff_period, window_len, lopass,
                   fden, rvector>>
    /\ UNCHANGED notfft

\* if lopass is True: zero above the cutoff, pad with (1.0, 0.0)
\* else: zero below the cutoff, pad with (0.0, 1.0)
FftMask ==
    /\ pc = "fft_mask"
    /\ factor' = Pad(Zeroed(freq, Len(vector), cutoff_period[1],
                            lopass = "True"),
                     PadWidth(window_len[1]),
                     IF lopass = "True" THEN 1 ELSE 0,
                     IF lopass = "True" THEN 0 ELSE 1)
    /\ pc' = "fft_smooth"
    /\ UNCHANGED <<exc, entry, vector, cutoff_period, window_len, lopass,
                   freq, fden, fresult, rvector>>
    /\ UNCHANGED notfft

\* factor = np.convolve(factor, [1.0/window_len]*window_len, mode=1)
FftSmooth ==
    /\ pc = "fft_smooth"
    /\ factor' = ConvolveSame(factor, Repeat(1, window_len[1]))
    /\ fden' = window_len[1]
    /\ pc' = "fft_trim"
    /\ UNCHANGED <<exc, entry, vector, cutoff_period, window_len, lopass,
                   freq, fresult, rvector>>
    /\ UNCHANGED notfft

\* factor = factor[window_len + 1:-(window_len + 1)]
FftTrim ==
    /\ pc = "fft_trim"
    /\ factor' = Trim(factor, PadWidth(window_len[1]))
    /\ pc' = "fft_apply"
    /\ UNCHANGED <<exc, entry, vector, cutoff_period, window_len, lopass,
                   freq, fden, fresult, rvector>>
    /\ UNCHANGED notfft

\* result = result * factor; rvector = F.irfft(result, len(vector))
\* return np.atleast_1d(rvector)
FftApplyInPlace ==
    /\ pc = "fft_apply"
    /\ IF CanMultiply(fresult, factor)
       THEN /\ fresult' = Multiply(fresult, factor)
            /\ rvector' = Irfft(fresult', Len(vector))
            /\ vector' = rvector'
            /\ pc' = "done"
            /\ exc' = exc
       ELSE /\ pc' = "raised"
            /\ exc' = "ValueError"
            /\ UNCHANGED <<fresult, rvector, vector>>
    /\ UNCHANGED <<entry, cutoff_period, window_len, lopass, freq, factor,
                   fden>>
    /\ UNCHANGED notfft
FftApply ==
    /\ pc = "fft_apply"
    /\ IF CanMultiply(fresult, factor)
       THEN /\ fresult' = Multiply(fresult, factor)
            /\ rvector' = Irfft(fresult', Len(vector))
            /\ pc' = "done"
            /\ exc' = exc
       ELSE /\ pc' = "raised"
            /\ exc' = "ValueError"
            /\ UNCHANGED <<fresult, rvector>>
    /\ UNCHANGED <<entry, vector, cutoff_period, window_len, lopass, freq,
                   factor, fden>>
    /\ UNCHANGED notfft

NextFft ==
    \/ FftLowpass
    \/ FftHighpass
    \/ FftCheck
    \/ FftRfft
    \/ FftMask
    \/ FftSmooth
    \/ FftTrim
    \/ FftApply

SpecFft == InitFft /\ [][NextFft]_vars

-----------------------------------------------------------------------------
(* The filter command.  The repository holds it twice, in tstoolbox.py and *)
(* in functions/filter.py; fmodule says which file's command runs.  A      *)
(* column is its samples as integer numerators v over one denominator den. *)
(* Of the windowed types the model runs 'flat' and 'bartlett', whose       *)
(* weights are rationals; 'hanning', 'hamming' and 'blackman' take the     *)
(* same statements with cosine weights.                                    *)

CmdMaxWin == 5      \* largest window_len of the command

Modules == {"tstoolbox", "functions"}
WindowedTypes == {"flat", "hanning", "hamming", "bartlett", "blackman"}
FftTypes == {"fft_lowpass", "fft_highpass"}
\* the filter_type values of the model; 'median' is a type of neither list
FilterTypes == {"flat", "bartlett", "fft_lowpass", "fft_highpass", "median"}

Column(v) == [v |-> v, den |-> 1]
\* the tables read by read_iso_ts: one or two columns of the same length
CmdTables ==
    {<<Column(v)>> : v \in FftVectors}
    \cup {<<Column(p[1]), Column(p[2])>> :
             p \in {q \in FftVectors \X FftVectors : Len(q[1]) = Len(q[2])}}

\* len(tsd.values)
CmdLen(tbl) == Len(tbl[1].v)

\* pd.np.pad(values, width, 'reflect'): the samples mirrored about the
\* first and about the last one, which are not repeated
ReflectPad(v, width) ==
    [k \in 1..(Len(v) + 2 * width) |->
        IF k <= width THEN v[width - k + 2]
        ELSE IF k <= width + Len(v) THEN v[k - width]
        ELSE v[2 * Len(v) + width - k]]

\* pd.np.convolve(a, v, mode='valid'): the entries of the full convolution
\* where the two sequences overlap completely
ConvolveValid(a, v) ==
    SubSeq(ConvolveFull(a, v), Min(Len(a), Len(v)), Max(Len(a), Len(v)))

\* w: pd.np.ones(window_len) or pd.np.bartlett(window_len), the latter in
\* units of 1/(window_len - 1)
Weights(type, w) ==
    IF type = "flat" THEN Repeat(1, w)
    ELSE [k \in 1..w |-> Min(2 * (k - 1), 2 * (w - k))]

\* pd.np.convolve(w / w.sum(), s, mode='valid'), numerators over w.sum()
Smoothed(type, v, w) ==
    ConvolveValid(Weights(type, w), ReflectPad(v, w \div 2))

\* tsd[col].values[:] = a: a needs the column's length, or one entry
CanStore(n, a) == Len(a) = n \/ Len(a) = 1

\* one pass of the loop body over a column
FilterColumn(module, type, col, cut, w) ==
    IF type \in FftTypes
    THEN IF cut = Unset
         THEN [kind |-> "raise", exc |-> "ValueError", col |-> col]
         ELSE IF module = "tstoolbox"
         THEN \* filters._transform indexes the samples as vector[:,0]
              [kind |-> "raise", exc |-> "IndexError", col |-> col]
         ELSE [kind |-> "store", exc |-> "none",
               col |-> [v |-> Transform(col.v, cut[1], w,
                                        type = "fft_lowpass"),
                        den |-> w]]
    ELSE IF type \in WindowedTypes
    THEN IF w < 3
         THEN [kind |-> "continue", exc |-> "none", col |-> col]
         ELSE LET a == Smoothed(type, col.v, w)
              IN  IF CanStore(Len(col.v), a)
                  THEN [kind |-> "store", exc |-> "none",
                        col |-> [v |-> a,
                                 den |-> SumTo(Weights(type, w), w)]]
                  ELSE [kind |-> "raise", exc |-> "ValueError", col |-> col]
    ELSE [kind |-> "raise", exc |-> "ValueError", col |-> col]

\* a call of the command of either file; cutoff_period is left at None for
\* the windowed types, which do not read it
InitCmd ==
    /\ pc = "cmd_check"
    /\ exc = "none"
    /\ fmodule \in Modules
    /\ filter_type \in FilterTypes
    /\ fcutoff \in (IF filter_type \in FftTypes THEN Periods ELSE {Unset})
    /\ fwindow \in 1..CmdMaxWin
    /\ ftsd \in CmdTables
    /\ fcol = 0
    /\ filtered = {}
    /\ DtwIdle
    /\ EqIdle
    /\ PairsIdle
    /\ ReadIdle
    /\ FftIdle

\* tstoolbox.py: if len(tsd.values) < window_len: raise ValueError
\* functions/filter.py: assert len(tsd.values) > window_len
\*                      assert filter_type in [...]
CmdCheck ==
    /\ pc = "cmd_check"
    /\ IF fmodule = "tstoolbox"
       THEN IF CmdLen(ftsd) < fwindow
            THEN pc' = "raised" /\ exc' = "ValueError" /\ fcol' = fcol
            ELSE pc' = "cmd_loop" /\ exc' = exc /\ fcol' = 1
       ELSE IF ~(CmdLen(ftsd) > fwindow)
                \/ filter_type \notin WindowedTypes \cup FftTypes
            THEN pc' = "raised" /\ exc' = "AssertionError" /\ fcol' = fcol
            ELSE pc' = "cmd_loop" /\ exc' = exc /\ fcol' = 1
    /\ UNCHANGED <<fmodule, filter_type, fcutoff, fwindow, ftsd, filtered>>
    /\ UNCHANGED notcmd

\* for col in tsd.columns: the body, on the next column
CmdColumn ==
    /\ pc = "cmd_loop"
    /\ fcol <= Len(ftsd)
    /\ LET pass == FilterColumn(fmodule, filter_type, ftsd[fcol], fcutoff,
                                fwindow)
       IN  IF pass.kind = "raise"
           THEN /\ pc' = "raised"
                /\ exc' = pass.exc
                /\ UNCHANGED <<ftsd, fcol, filtered>>
           ELSE /\ pc' = pc
                /\ exc' = exc
                /\ ftsd' = [ftsd EXCEPT ![fcol] = pass.col]
                /\ fcol' = fcol + 1
                /\ filtered' = (IF pass.kind = "store"
                                THEN filtered \cup {fcol} ELSE filtered)
    /\ UNCHANGED <<fmodule, filter_type, fcutoff, fwindow>>
    /\ UNCHANGED notcmd

\* return tsutils.print_input(print_input, otsd, tsd, '_filter', ...)
CmdReturn ==
    /\ pc = "cmd_loop"
    /\ fcol > Len(ftsd)
    /\ pc' = "done"
    /\ UNCHANGED <<exc, cmdvars>>
    /\ UNCHANGED notcmd

NextCmd ==
    \/ CmdCheck
    \/ CmdColumn
    \/ CmdReturn

SpecFilter == InitCmd /\ [][NextCmd]_vars

\* the two kernels that take sequences: a call of _dtw or of _transform
InitKernels == InitDtw \/ InitFft
NextKernels == NextDtw \/ NextFft
SpecKernels == InitKernels /\ [][NextKernels]_vars

Init == InitDtw \/ InitEq \/ InitPairs \/ InitRead \/ InitFft \/ InitCmd
Next == NextDtw \/ NextEq \/ NextPairs \/ NextRead \/ NextFft \/ NextCmd
Spec == Init /\ [][Next]_vars

-----------------------------------------------------------------------------
(* Properties of equation.  What a reference denotes is written here on    *)
(* the expression as the user gave it, not on its rewriting.               *)

Rows(tbl) == 0..(NRows(tbl) - 1)
EqWidth(e, tbl) == IF NSearch(e) THEN 1 ELSE NCols(tbl)

\* the bracket of some reference leaves the table at row r
BelowAt(e, r) ==
    \E k \in TermIdx(e) : e.terms[k].idx /\ r + e.terms[k].off < 0
BeyondAt(e, tbl, r) ==
    \E k \in TermIdx(e) : e.terms[k].idx /\ r + e.terms[k].off >= NRows(tbl)
FaultAt(e, tbl, r) == BelowAt(e, r) \/ BeyondAt(e, tbl, r)

ColsInRange(e, tbl) == \A k \in TermIdx(e) : e.terms[k].col <= NCols(tbl)

\* what reference tm denotes at row r: a cell of column K, or the whole row
RefValue(tbl, tm, r) ==
    IF tm.col = 0 THEN tbl[r + tm.off + 1]
    ELSE <<tbl[r + tm.off + 1][tm.col]>>

\* the value of the expression at row r, missing when a bracket leaves
\* the table
RefRow(e, tbl, r) ==
    IF FaultAt(e, tbl, r) THEN NaNRow(EqWidth(e, tbl))
    ELSE IF Len(e.terms) = 1 THEN RefValue(tbl, e.terms[1], r)
    ELSE AddRows(RefValue(tbl, e.terms[1], r), RefValue(tbl, e.terms[2], r))

\* C6: in the time-indexed shapes, a row whose bracket offset leaves the
\* table (below 0, no wrap-around, or at N and beyond) gets a missing
\* output, the loop goes on with the next row, every other row gets the
\* expression's exact value, and the run is never aborted.
C6_RowLocalFault ==
    (TSearch(equation) /\ equation.bad = "ok" /\ ColsInRange(equation, x)) =>
        /\ pc # "raised"
        /\ pc \in {"eq_loop", "eq_return", "done"} =>
               /\ assigned = 0..(t - 1)
               /\ \A r \in assigned : y[r + 1] = RefRow(equation, x, r)
        /\ pc = "done" => t = NRows(x)

\* a finished run with a row that reaches below the table, a row that
\* reaches beyond it and a row that does neither
C6_Witness ==
    /\ pc = "done"
    /\ TSearch(equation) /\ equation.bad = "ok" /\ ColsInRange(equation, x)
    /\ \E r1, r2, r3 \in Rows(x) :
           /\ BelowAt(equation, r1) /\ y[r1 + 1] = NaNRow(Len(y[1]))
           /\ BeyondAt(equation, x, r2) /\ y[r2 + 1] = NaNRow(Len(y[1]))
           /\ ~FaultAt(equation, x, r3) /\ \A c \in 1..Len(y[1]) : y[r3 + 1][c] > 0

\* the expression x[t]+x[t-1]
XtPlusXtMinus1 ==
    [terms |-> <<[col |-> 0, idx |-> TRUE, off |-> 0],
                 [col |-> 0, idx |-> TRUE, off |-> -1]>>,
     bad |-> "ok"]

\* C7: for one input column and x[t]+x[t-1], row 0 is missing and row t of
\* the output is input[t] + input[t-1] for every t >= 1.
C7_AdjacentSum ==
    (pc = "done" /\ NCols(x) = 1 /\ equation = XtPlusXtMinus1) =>
        /\ Len(y) = NRows(x)
        /\ y[1] = <<NaN>>
        /\ \A r \in 1..(NRows(x) - 1) : y[r + 1] = <<x[r + 1][1] + x[r][1]>>

\* the run on the column 1, 2, 3, 4
C7_Witness ==
    /\ pc = "done"
    /\ equation = XtPlusXtMinus1
    /\ x = <<<<1>>, <<2>>, <<3>>, <<4>>>>
    /\ y = <<<<NaN>>, <<3>>, <<5>>, <<7>>>>

\* C8: a malformed expression makes equation fail before any row is
\* evaluated: when the error is raised no row has been assigned.
C8_FailsBeforeAnyRow ==
    (pc = "raised" /\ equation.bad # "ok") => assigned = {}

\* C9: a numbered placeholder beyond the last input column makes equation
\* fail in every expression shape; the call never returns a table.
C9_ColumnOutOfRangeFatal ==
    (equation.bad = "ok" /\ ~ColsInRange(equation, x)) => pc # "done"

\* the expression x
JustX == [terms |-> <<[col |-> 0, idx |-> FALSE, off |-> 0]>>, bad |-> "ok"]

\* C10: the expression x returns the input table unchanged.
C10_IdentityExpression ==
    (pc = "done" /\ equation = JustX) => y = x

\* the run of x on a table of several rows and columns
C10_Witness ==
    /\ pc = "done"
    /\ equation = JustX
    /\ NRows(x) >= 3 /\ NCols(x) >= 2
    /\ y = x

-----------------------------------------------------------------------------
(* More properties of equation.                                            *)

-----------------------------------------------------------------------------
(* More properties of _dtw: the band.                                      *)

LastCell == <<Len(ts_a) - 1, Len(ts_b) - 1>>
Interior(c) == c[1] >= 1 /\ c[2] >= 1

\* the band as the claims state it: max(1, i-window) <= j < min(N, i+window)
StatedBand(c) ==
    /\ Max(1, c[1] - window) <= c[2]
    /\ c[2] < Min(Len(ts_b), c[1] + window)

\* C18: for window >= max(1, |M - N|) the result cell is a written cell and
\* _dtw returns an accumulated cost, not the sentinel.
C18_ResultCellReached ==
    (DtwDone /\ window >= Max(1, d(Len(ts_a), Len(ts_b)))) =>
        (LastCell \in written /\ result[1] < maxsize)

\* the cells of the alignment cost[r, k] was accumulated along: back from
\* <<r, k>> to <<0, 0>>, at an interior cell through the choice min() took
\* (the first of the smallest), along the first row or column otherwise
RECURSIVE Alignment(_, _, _)
Alignment(c, r, k) ==
    IF r = 0 /\ k = 0 THEN {<<0, 0>>}
    ELSE IF r = 0 THEN {<<r, k>>} \cup Alignment(c, 0, k - 1)
    ELSE IF k = 0 THEN {<<r, k>>} \cup Alignment(c, r - 1, 0)
    ELSE LET m == MinChoice(c, r, k)
         IN  {<<r, k>>} \cup
             (IF c[<<r - 1, k - 1>>] = m THEN Alignment(c, r - 1, k - 1)
              ELSE IF c[<<r, k - 1>>] = m THEN Alignment(c, r, k - 1)
              ELSE Alignment(c, r - 1, k))

\* C19: for window >= 1 every cell of the alignment behind the returned
\* cost satisfies |i - j| <= window.
C19_AlignmentWithinWindow ==
    (DtwDone /\ window >= 1 /\ result[1] < maxsize) =>
        \A c \in Alignment(cost, LastCell[1], LastCell[2]) :
            d(c[1], c[2]) <= window

\* C20: with window >= 1, interior cells outside the band are never written
\* and keep the sentinel, and every min of the interior recurrence is the
\* cost of a written cell, below the sentinel.
C20_BandIsolation ==
    (window >= 1 /\ pc \in {"dtw_column", "dtw_row", "dtw_band", "done"}) =>
        /\ \A c \in DOMAIN cost :
               (Interior(c) /\ ~StatedBand(c)) =>
                   (c \notin written /\ cost[c] = maxsize)
        /\ \A c \in DOMAIN cost : c \notin written => cost[c] = maxsize
        /\ \A c \in written :
               Interior(c) =>
                   /\ MinChoice(cost, c[1], c[2]) < maxsize
                   /\ \E p \in {<<c[1] - 1, c[2] - 1>>, <<c[1], c[2] - 1>>,
                                <<c[1] - 1, c[2]>>} \cap written :
                          /\ cost[p] = MinChoice(cost, c[1], c[2])
                          /\ cost[c] = cost[p] + d(ts_a[c[1] + 1], ts_b[c[2] + 1])

\* a finished 3 x 3 call of window 1: <<1, 2>> is outside the band and
\* unwritten, and it is one of the choices of the written cell <<2, 2>>
C20_Witness ==
    /\ DtwDone
    /\ window = 1
    /\ Len(ts_a) = 3 /\ Len(ts_b) = 3
    /\ <<1, 2>> \notin written /\ cost[<<1, 2>>] = maxsize
    /\ <<2, 2>> \in written /\ cost[<<2, 2>>] < maxsize

-----------------------------------------------------------------------------
(* Properties of the loop of dtw.                                          *)

Keys == DOMAIN process
CallCount(a, b) == Cardinality({n \in 1..Len(calls) : calls[n] = <<a, b>>})

\* C16: when the loop of dtw over a table of k columns is over, _dtw has
\* been called exactly once for every unordered pair of distinct columns:
\* process has k*(k-1)/2 entries, no entry (c, c), never both (a, b) and
\* (b, a).
C16_EachPairOnce ==
    (pc = "done" \/ (pc = "pairs_loop" /\ col_i > Len(columns))) =>
        /\ Cardinality(Keys) = (Len(columns) * (Len(columns) - 1)) \div 2
        /\ Len(calls) = Cardinality(Keys)
        /\ \A a, b \in ColumnSet(columns) :
               /\ <<a, a>> \notin Keys
               /\ ~(<<a, b>> \in Keys /\ <<b, a>> \in Keys)
               /\ (a # b) => (CallCount(a, b) + CallCount(b, a) = 1)
               /\ (<<a, b>> \in Keys) <=> (CallCount(a, b) = 1)

\* the loop is over for three columns: three entries
C16_Witness ==
    /\ pc = "done"
    /\ Len(columns) = 3
    /\ Cardinality(Keys) = 3
    /\ Len(calls) = 3

-----------------------------------------------------------------------------
(* Properties of read.                                                     *)

\* C17: the table read returns has pairwise distinct column names,
\* whatever the files and the column names in them.
C17_DistinctColumnNames ==
    pc = "done" =>
        \A m, n \in 1..Len(rcolumns) : m # n => rcolumns[m] # rcolumns[n]

-----------------------------------------------------------------------------
(* Properties of the FFT filter.                                           *)

FftN == Len(vector)
IsConstant(v) == \A m, n \in 1..Len(v) : v[m] = v[n]

\* C12: a call of the FFT low pass or high pass with cutoff_period or
\* window_len unset ends in the validation error (ValueError) of the check,
\* before any transform is computed.
C12_UnsetRejected ==
    (pc \notin {"fft_call", "fft_check"}
        /\ entry \in Entries
        /\ (cutoff_period = Unset \/ window_len = Unset)) =>
        (pc = "raised" /\ exc = "ValueError" /\ fresult = <<>> /\ rvector = <<>>)

\* C13: for every vector of length n >= 1 and every window_len >= 1 the
\* padded mask has n//2+1 + 2*(window_len+1) entries, the smoothing keeps
\* that length, the trimmed mask has n//2+1 entries again, as many as the
\* spectrum, and the returned vector has n entries.
C13_MaskAndOutputLength ==
    /\ pc \in {"fft_smooth", "fft_trim"} =>
           Len(factor) = FftN \div 2 + 1 + 2 * (window_len[1] + 1)
    /\ pc \in {"fft_apply", "done"} /\ entry \in Entries =>
           /\ Len(factor) = FftN \div 2 + 1
           /\ Len(fresult) = Len(factor)
    /\ pc = "done" /\ entry \in Entries => Len(rvector) = FftN
    /\ pc = "raised" /\ entry \in Entries => fresult = <<>>

\* a finished call whose kernel is as long as the unpadded mask
C13_Witness ==
    /\ pc = "done"
    /\ FftN = 4
    /\ window_len = <<3>>
    /\ Len(factor) = 3
    /\ Len(rvector) = 4

\* C14: the low pass of a constant vector is the same constant vector; the
\* smoothed low-pass mask is exactly 1 at bin 0.
C14_ConstantPreserved ==
    (pc = "done" /\ entry \in Entries /\ lopass = "True"
        /\ IsConstant(vector)) =>
        /\ factor[1] = fden
        /\ \A n \in 1..FftN : rvector[n] = vector[n] * fden

\* C15: the low-pass mask and the high-pass mask of the same cutoff and
\* window sum to 1 at every bin, and the low pass and the high pass of a
\* vector sum to the vector.
C15_MasksComplementary ==
    (pc = "done" /\ entry \in Entries) =>
        LET cut == cutoff_period[1]
            w == window_len[1]
        IN  /\ factor = Factor(FftN, cut, w, lopass = "True")
            /\ rvector = Transform(vector, cut, w, lopass = "True")
            /\ \A k \in 1..RfftLen(FftN) :
                   Factor(FftN, cut, w, TRUE)[k]
                       + Factor(FftN, cut, w, FALSE)[k] = w
            /\ \A n \in 1..FftN :
                   Transform(vector, cut, w, TRUE)[n]
                       + Transform(vector, cut, w, FALSE)[n] = vector[n] * w

\* the unsmoothed mask: the padded factor without its padding
Abs(p) == IF p < 0 THEN -p ELSE p
Unsmoothed == SubSeq(factor, PadWidth(window_len[1]) + 1,
                     PadWidth(window_len[1]) + Len(freq))

\* C21: in the unsmoothed low-pass mask every bin whose frequency magnitude
\* exceeds 1/cutoff_period is 0, in the unsmoothed high-pass mask every bin
\* whose frequency magnitude is below 1/cutoff_period is 0, the Nyquist bin
\* of an even length included.
C21_MagnitudeCutoff ==
    (pc = "fft_smooth" /\ entry \in Entries) =>
        \A k \in 1..Len(freq) :
            /\ (lopass = "True" /\ Abs(freq[k]) * cutoff_period[1] > FftN)
                   => Unsmoothed[k] = 0
            /\ (lopass # "True" /\ Abs(freq[k]) * cutoff_period[1] < FftN)
                   => Unsmoothed[k] = 0

-----------------------------------------------------------------------------
(* More properties of equation: the rows are independent.                  *)

\* C22: in the time-indexed shapes, at every point of the loop and for
\* every row r, assigned already or not, one pass of the loop body at r
\* yields the expression's value on the input table at r, whatever rows
\* the output holds so far; the loop never changes the input table.
C22_RowsIndependent ==
    /\ [](( pc = "eq_loop" /\ equation.bad = "ok"
              /\ ColsInRange(equation, x)) =>
            \A r \in Rows(x) :
                LET pass == RowOutcome(testeval, nequation, x, r, Len(y[1]))
                IN  /\ pass.kind = "assign"
                    /\ pass.v = RefRow(equation, x, r)
                    /\ r \in assigned => y[r + 1] = pass.v)
    /\ [][x' = x]_vars

\* the loop is under way: a row is assigned, and a later row that no
\* bracket leaves the table at is still to come
C22_Witness ==
    /\ pc = "eq_loop"
    /\ equation.bad = "ok" /\ ColsInRange(equation, x)
    /\ assigned # {}
    /\ \E r \in Rows(x) :
           /\ r > t
           /\ ~FaultAt(equation, x, r)
           /\ y[1] # RefRow(equation, x, r)

-----------------------------------------------------------------------------
(* More properties of equation: the numbered placeholders.                 *)

WellFormed == equation.bad = "ok" /\ ColsInRange(equation, x)

\* the sum of the columns the placeholders of e name, at row r (from 1)
ColumnSum(e, tbl, r) ==
    IF Len(e.terms) = 1 THEN tbl[r][e.terms[1].col]
    ELSE tbl[r][e.terms[1].col] + tbl[r][e.terms[2].col]

\* C23: with numbered placeholders and no bracket, xK is the whole input
\* column at position K-1, the expression is evaluated once over the
\* columns, with no pass of a per-row loop, and the output is one column
\* of as many rows as the input; x1+x2 is the sum of the first two columns
\* at every row.
C23_WholeColumns ==
    (~TSearch(equation) /\ NSearch(equation) /\ WellFormed) =>
        /\ pc # "raised"
        /\ pc # "eq_loop"
        /\ assigned = {} /\ t = 0
        /\ pc \in {"eq_return", "done"} =>
               /\ Len(y) = NRows(x)
               /\ \A r \in 1..NRows(x) : y[r] = <<ColumnSum(equation, x, r)>>

\* x1+x2 on a table of two columns and several rows has returned
C23_Witness ==
    /\ pc = "done"
    /\ ~TSearch(equation) /\ WellFormed
    /\ Len(equation.terms) = 2
    /\ equation.terms[1].col = 1 /\ equation.terms[2].col = 2
    /\ NRows(x) >= 3
    /\ y[3] = <<x[3][1] + x[3][2]>>
    /\ x[3][1] # x[3][2]

\* the cell reference tm names at row r (from 0): row e(t) = r + off for
\* xK[e], row r for a bare xK; column K-1 counted from 0
CellOf(tbl, tm, r) == tbl[r + tm.off + 1][tm.col]
CellSum(e, tbl, r) ==
    IF Len(e.terms) = 1 THEN CellOf(tbl, e.terms[1], r)
    ELSE CellOf(tbl, e.terms[1], r) + CellOf(tbl, e.terms[2], r)

\* C24: with brackets and numbered placeholders together, xK[e] at row t
\* is the input cell at row e(t), column K-1, a bare xK is the input cell
\* at row t, column K-1, and the output is one column whose row t is the
\* expression's value over those cells.
C24_CellLookups ==
    (TSearch(equation) /\ NSearch(equation) /\ WellFormed
        /\ pc \in {"eq_loop", "eq_return", "done"}) =>
        /\ \A r \in 1..Len(y) : Len(y[r]) = 1
        /\ Len(y) = NRows(x)
        /\ \A r \in assigned :
               ~FaultAt(equation, x, r) =>
                   y[r + 1] = <<CellSum(equation, x, r)>>

\* x1[t-1] and a bare x2 in one expression: a row holds the sum of the
\* cell one row up in the first column and the cell of its own row in the
\* second
C24_Witness ==
    /\ pc = "done"
    /\ WellFormed
    /\ Len(equation.terms) = 2
    /\ equation.terms[1] = [col |-> 1, idx |-> TRUE, off |-> -1]
    /\ equation.terms[2] = [col |-> 2, idx |-> FALSE, off |-> 0]
    /\ NRows(x) >= 3
    /\ y[3] = <<x[2][1] + x[3][2]>>
    /\ y[3] # <<x[3][1] + x[3][2]>>

-----------------------------------------------------------------------------
(* The kernels and their arguments.                                        *)

\* C25: neither _transform nor _dtw changes its arguments at any step; the
\* cost matrix of a call starts with the sentinel in every cell and no
\* cell written; what a call returns is a function of its arguments alone.
C25_NoSideEffects ==
    /\ [][/\ ts_a' = ts_a /\ ts_b' = ts_b /\ window' = window
          /\ vector' = vector /\ cutoff_period' = cutoff_period
          /\ window_len' = window_len]_vars
    /\ [](pc = "dtw_corner" =>
              /\ written = {}
              /\ \A c \in DOMAIN cost : cost[c] = maxsize)
    /\ []((DtwDone /\ NonEmpty) => result = <<Dtw(ts_a, ts_b, window)>>)
    /\ []((pc = "done" /\ entry \in Entries) =>
              rvector = Transform(vector, cutoff_period[1], window_len[1],
                                  lopass = "True"))

\* a low pass has returned samples that differ from the argument's, and
\* the argument is still the level plus alternation it was
C25_Witness ==
    /\ pc = "done"
    /\ entry \in Entries
    /\ vector \in FftVectors
    /\ \E n \in 1..Len(vector) : rvector[n] # vector[n] * fden

-----------------------------------------------------------------------------
(* _dtw against the warping paths.                                         *)

\* the cells _dtw writes: first row, first column, in-band interior cells
WrittenByRule(c) == c[1] = 0 \/ c[2] = 0 \/ StatedBand(c)

\* the sums of the pointwise distances along the monotone paths from
\* <<0, 0>> to <<r, k>> (each step adds one to the row, to the column, or
\* to both): along every path when any is TRUE, along the paths that
\* visit written cells only otherwise
RECURSIVE PathSums(_, _, _)
PathSums(r, k, any) ==
    LET here == d(ts_a[r + 1], ts_b[k + 1])
        before ==
            (IF r > 0 /\ k > 0 THEN PathSums(r - 1, k - 1, any) ELSE {})
            \cup (IF k > 0 THEN PathSums(r, k - 1, any) ELSE {})
            \cup (IF r > 0 THEN PathSums(r - 1, k, any) ELSE {})
    IN  IF ~any /\ ~WrittenByRule(<<r, k>>) THEN {}
        ELSE IF r = 0 /\ k = 0 THEN {here}
        ELSE {sum + here : sum \in before}

WrittenPathSums == PathSums(LastCell[1], LastCell[2], FALSE)

\* C27: for non-empty A and B and window >= 1, when some monotone path
\* from (0,0) to (M-1,N-1) visits written cells only, _dtw returns the
\* least sum of pointwise distances over those paths.
C27_LeastWrittenPath ==
    (DtwDone /\ window >= 1) =>
        LET sums == WrittenPathSums
        IN  sums # {} =>
                /\ result[1] \in sums
                /\ \A sum \in sums : sum >= result[1]

\* a finished call of window 1 where the band matters: some path through
\* an unwritten cell is cheaper than the returned distance
C27_Witness ==
    /\ DtwDone
    /\ window = 1
    /\ WrittenPathSums # {}
    /\ \E sum \in PathSums(LastCell[1], LastCell[2], TRUE) : sum < result[1]

\* the classic distance: the full recurrence over every cell
RECURSIVE Classic(_, _, _, _)
Classic(a, b, r, k) ==
    LET here == d(a[r + 1], b[k + 1])
    IN  IF r = 0 /\ k = 0 THEN here
        ELSE IF r = 0 THEN here + Classic(a, b, 0, k - 1)
        ELSE IF k = 0 THEN here + Classic(a, b, r - 1, 0)
        ELSE here + Min(Classic(a, b, r - 1, k - 1),
                        Min(Classic(a, b, r, k - 1), Classic(a, b, r - 1, k)))

\* C28: for non-empty A and B, _dtw with a window of max(len(A), len(B))
\* or more, the default 10000 among them, returns the classic unbanded
\* distance.
C28_WideWindowIsClassic ==
    (DtwDone /\ window >= Max(Len(ts_a), Len(ts_b))) =>
        /\ written = DOMAIN cost
        /\ result[1] = Classic(ts_a, ts_b, LastCell[1], LastCell[2])

\* a finished call on two sequences of three elements that differ, the
\* window the default
C28_Witness ==
    /\ DtwDone
    /\ window = DefaultWindow
    /\ Len(ts_a) = 3 /\ Len(ts_b) = 3
    /\ result[1] > 0
    /\ result[1] = Classic(ts_a, ts_b, 2, 2)

-----------------------------------------------------------------------------
(* Properties of the filter command.                                       *)

\* C26: a call of the filter command whose input length is not strictly
\* greater than window_len, a length equal to window_len included, ends in
\* an error raised by the length check, before the loop has filtered any
\* column.
C26_ShortInputRejected ==
    (pc \in {"cmd_loop", "done", "raised"}
        /\ fmodule \in Modules
        /\ CmdLen(ftsd) <= fwindow) =>
        (pc = "raised" /\ fcol = 0 /\ filtered = {})

\* C29: with a windowed filter type and 3 <= window_len < input length,
\* window_len odd or even, the pass over every column still to be filtered
\* yields a smoothed column of exactly the input's length and stores it;
\* with window_len < 3 no step of the command changes the table.
C29_SmoothedKeepsLength ==
    /\ []((pc = "cmd_loop" /\ filter_type \in WindowedTypes
              /\ fwindow >= 3 /\ fwindow < CmdLen(ftsd)) =>
             \A c \in fcol..Len(ftsd) :
                 LET pass == FilterColumn(fmodule, filter_type, ftsd[c],
                                          fcutoff, fwindow)
                 IN  /\ Len(Smoothed(filter_type, ftsd[c].v, fwindow))
                            = CmdLen(ftsd)
                     /\ pass.kind = "store"
                     /\ Len(pass.col.v) = CmdLen(ftsd))
    /\ [][(filter_type \in WindowedTypes /\ fwindow < 3) => ftsd' = ftsd]_vars

=============================================================================
